---- MODULE Spec2Model ----
(***************************************************************************)
(* qNTA SurroSel: the select handler of the dashboard sidebar, the baseline *)
(* simulation it drives, and the central data store it publishes to.        *)
(*                                                                          *)
(* Numbers entered by the user and the entries of RANDOM_NS are multiples   *)
(* of 0.01 (the numeric input's step); the model holds every such number in *)
(* hundredths, so 0.2 is 20, the literal count 1.0 is 100 and 1.5 is 150.   *)
(***************************************************************************)
EXTENDS Integers, Sequences, FiniteSets, TLC

\* ------------------------------------------------------------ bounds
\* Row counts of the datasets that can be loaded.
SmallN == 10
BigN == 100
\* Number of identifiers in the long user-entered identifier list.
UserBlock == 20
\* How many entries RANDOM_NS may gain before select is no longer clicked.
MaxExtra == 2
\* Largest population a selector is bound to on its own.
MaxPop == 4

\* ------------------------------------------------------------ numbers
\* One unit (the count 1) in hundredths.
Unit == 100
\* Python's None (an empty numeric input), outside every number in use.
None == 0 - (Unit * Unit)

Range(s) == {s[i] : i \in DOMAIN s}

\* round(num / den) as Python rounds a float: to nearest, ties to even.
PyRound(num, den) ==
    LET q == num \div den
        r == num % den
    IN  IF 2 * r < den THEN q
        ELSE IF 2 * r > den THEN q + 1
        ELSE IF q % 2 = 0 THEN q ELSE q + 1

\* sorted(xs): ascending, duplicates kept.
RECURSIVE sorted(_)
sorted(xs) ==
    IF xs = <<>> THEN <<>>
    ELSE LET x == Head(xs)
             rest == sorted(Tail(xs))
             k == Cardinality({i \in 1..Len(rest) : rest[i] <= x})
         IN  SubSeq(rest, 1, k) \o <<x>> \o SubSeq(rest, k + 1, Len(rest))

\* list(set(xs)): one entry per distinct value, in some order.
RECURSIVE list_set(_)
list_set(S) ==
    IF S = {} THEN <<>>
    ELSE LET x == CHOOSE y \in S : TRUE IN <<x>> \o list_set(S \ {x})

\* ------------------------------------------------------------ constants
RANDOM_REPS == 100
RANDOM_NS_DEFAULT == <<1, 10, 20, 50>>

HIERARCHICAL == "hierarchical"
RANDOM == "random"
USER == "user"

NO_DATA == "NO_DATA"
N_INVALID == "N_INVALID"
NO_STRAT == "NO_STRAT"
NO_USER == "NO_USER"

VARIABLES
    desc,       \* number of rows of the descriptor table (0: empty frame);
                \* row i (0-based) carries the identifier i + 1
    data,       \* number of rows of the trimmed data table
    surr,       \* Selection Result: label -> [idx, score]
    sim,        \* Simulation Result: [scores, ns], or the empty dict
    RANDOM_NS,  \* the module-level list of reference sizes
    calls,      \* engine calls made by the latest handler, in order
    errors,     \* error notifications shown by the latest handler
    loaded,     \* what the latest handler handed to update_data, if it did
    sim_arg,    \* the list the latest handler handed to _simulate_random
    outcome,    \* how the latest handler ended
    inputs,     \* what the latest select handler read from its inputs
    disk,       \* the data folder: dataset directory name -> files in it
    log,        \* how many times last_updated.txt has been written
    datasets,   \* the reactive list of available datasets
    temp,       \* the upload modal's temp: rows of the parsed file (0: empty)
    modal,      \* whether the upload modal is shown
    up,         \* what the latest handler of the upload modal did
    probe,      \* the latest call made on a selector bound on its own
    page        \* the values of the two alert outputs that the page holds

store_vars == <<desc, data, surr, sim>>
sidebar_vars == <<RANDOM_NS, calls, errors, loaded, sim_arg, outcome, inputs>>
upload_vars == <<disk, log, datasets, temp, modal, up>>

vars == <<desc, data, surr, sim, RANDOM_NS, calls, errors, loaded, sim_arg, outcome,
          inputs, disk, log, datasets, temp, modal, up, probe, page>>

\* The empty dict {} and the merge {**a, **b}.
EmptyDict == [k \in {} |-> 0]
Merge(a, b) == [k \in DOMAIN a \cup DOMAIN b |-> IF k \in DOMAIN b THEN b[k] ELSE a[k]]

\* Engine calls as the handler makes them: who made them, the operation, the
\* size handed over (for score: the number of indices), the strategy, whether
\* the call returned, and how many times in a row this same call was made.
Call(by, op, n, strategy, ok, times) ==
    [by |-> by, op |-> op, n |-> n, strategy |-> strategy, ok |-> ok, times |-> times]

\* ------------------------------------------------------------ engine
\* ValidSize that lets the size 0 pass.
ValidSize_or_zero(N, size) == size % Unit = 0 /\ 0 <= size /\ size <= N * Unit

\* SurrogateSelection(desc[embedding]) with N rows. A size is accepted when
\* it is a whole count between 1 and N; anything else is InvalidSizeError.
ValidSize(N, size) == size % Unit = 0 /\ Unit <= size /\ size <= N * Unit

\* HIERARCHICAL with the representatives taken from the first clusters only.
HierarchicalSubset_crowded(N, k) == [j \in 1..k |-> ((j - 1) * N) \div (k + 1)]

\* HIERARCHICAL: k distinct positions spread over the population, the same
\* for the same population and k.
HierarchicalSubset(N, k) == [j \in 1..k |-> ((j - 1) * N) \div k]

\* RANDOM: k distinct positions that depend on the draw.
RandomSubset(N, k, draw) == [j \in 1..k |-> (draw + j - 1) % N]

\* The score of a subset: a non-negative number, 0 when the subset is the
\* whole population. Its numeric value is abstracted to the number of
\* entities outside the subset: N less the number of (distinct) indices.
LARD(N, idx) == N - Cardinality(DOMAIN idx)

\* A subset is accepted by score when it is non-empty, has no duplicate and
\* every index is in [0, N); anything else is InvalidSelectionError.
ValidSelection(N, idx) ==
    /\ Len(idx) > 0
    /\ \A i \in DOMAIN idx : idx[i] \in 0..(N - 1)
    /\ Cardinality(Range(idx)) = Len(idx)

\* selector.select(n, strategy) of a call that returns: (subset, score).
select(N, size, strategy, draw) ==
    LET k == size \div Unit
        idx == IF strategy = HIERARCHICAL THEN HierarchicalSubset(N, k)
               ELSE RandomSubset(N, k, draw)
    IN  <<idx, LARD(N, idx)>>

\* selector.score(subset) of a call that returns.
score(N, idx) == LARD(N, idx)

\* What a call on the selector comes to: the error it fails with, or its
\* value.
Returned(value) == [raised |-> FALSE, error |-> "none", value |-> value]
Failed(error) == [raised |-> TRUE, error |-> error, value |-> <<>>]

\* selector.select(size, strategy) on a population of N entities.
selector_select(N, size, strategy, draw) ==
    IF ValidSize(N, size)
    THEN Returned(select(N, size, strategy, draw))
    ELSE Failed("InvalidSizeError")

\* selector.score(subset) on a population of N entities.
selector_score(N, idx) ==
    IF ValidSelection(N, idx)
    THEN Returned(score(N, idx))
    ELSE Failed("InvalidSelectionError")

\* ------------------------------------------------------------ sidebar
\* What a helper of the handler hands back: whether it raised, its value,
\* the engine calls it made and the error notifications it showed.
Result(raised, value, made, shown) ==
    [raised |-> raised, value |-> value, calls |-> made, errors |-> shown]

\* user_idx with one position per entered line, in the order entered.
user_idx_per_line(N, user_ids) ==
    LET found == SelectSeq(user_ids, LAMBDA id : id \in 1..N)
    IN  [j \in DOMAIN found |-> found[j] - 1]

\* user_idx: np.where(np.isin(desc().index, lines))[0], ascending positions.
user_idx(N, user_ids) ==
    LET lines == Range(user_ids)
    IN  sorted(list_set({i \in 0..(N - 1) : (i + 1) \in lines}))

_validate_auto(n, strats) ==
    (IF n = None \/ n = 0 \/ n <= 0 THEN <<N_INVALID>> ELSE <<>>)
    \o (IF strats = <<>> THEN <<NO_STRAT>> ELSE <<>>)

\* _process_auto with the selection run for the first strategy only.
_process_auto_first(N, n, strats, draw) ==
    IF ValidSize(N, n)
    THEN Result(FALSE,
                [s \in {strats[1]} |-> select(N, n, s, draw)],
                <<Call("auto", "select", n, strats[1], TRUE, 1)>>,
                <<>>)
    ELSE Result(TRUE, EmptyDict,
                <<Call("auto", "select", n, strats[1], FALSE, 1)>>, <<>>)

\* {strat: selector.select(n=n, strategy=strat) for strat in strats}: n is
\* handed over as entered; the first call raises when the engine rejects n.
_process_auto(N, n, strats, draw) ==
    IF ValidSize(N, n)
    THEN Result(FALSE,
                [s \in Range(strats) |-> select(N, n, s, draw)],
                [i \in 1..Len(strats) |-> Call("auto", "select", n, strats[i], TRUE, 1)],
                <<>>)
    ELSE Result(TRUE, EmptyDict,
                <<Call("auto", "select", n, strats[1], FALSE, 1)>>, <<>>)

_validate_user(uidx) == IF Len(uidx) = 0 THEN <<NO_USER>> ELSE <<>>

\* {"user": (user_idx, selector.score(user_idx))}
_process_user(N, uidx) ==
    IF ValidSelection(N, uidx)
    THEN Result(FALSE,
                [k \in {USER} |-> <<uidx, score(N, uidx)>>],
                <<Call("user", "score", Len(uidx) * Unit, USER, TRUE, 1)>>,
                <<>>)
    ELSE Result(TRUE, EmptyDict,
                <<Call("user", "score", Len(uidx) * Unit, USER, FALSE, 1)>>, <<>>)

\* _process_conditional that validates and processes whatever the switch.
_process_conditional_unswitched(switch, errs, processed) ==
    IF errs # <<>>
    THEN Result(FALSE, EmptyDict, <<>>, errs)
    ELSE processed

\* Validation, error display and processing of one selection path; errs is
\* _validate_fn(*args) and processed is _process_fn(selector, *args).
_process_conditional(switch, errs, processed) ==
    IF switch
    THEN IF errs # <<>>
         THEN Result(FALSE, EmptyDict, <<>>, errs)
         ELSE processed
    ELSE Result(FALSE, EmptyDict, <<>>, <<>>)

\* np.repeat(ns, reps): each entry reps times, in the order of ns.
np_repeat(ns, reps) == [p \in 1..(Len(ns) * reps) |-> ns[((p - 1) \div reps) + 1]]

\* The scores of one pass of the loop over ns: select(n, RANDOM)[1] for each
\* of reps trials. Every trial draws on its own; its subset is discarded.
trial_scores(N, n, reps) == [r \in 1..reps |-> select(N, n, RANDOM, r)[2]]

\* scores.extend(...) for each entry of ns in turn.
RECURSIVE extend_all(_, _, _)
extend_all(N, ns, reps) ==
    IF ns = <<>> THEN <<>>
    ELSE trial_scores(N, Head(ns), reps) \o extend_all(N, Tail(ns), reps)

\* The baseline simulation: RANDOM_REPS calls of select(n, RANDOM) for each
\* entry of ns in turn, keeping the score of each. The first call the engine
\* rejects raises and ends the loop.
_simulate_random(N, ns) ==
    LET bad == {i \in 1..Len(ns) : ~ValidSize(N, ns[i])}
        stop == IF bad = {} THEN Len(ns) + 1
                ELSE CHOOSE i \in bad : \A j \in bad : i <= j
        done == [i \in 1..(stop - 1) |->
                    Call("sim", "select", ns[i], RANDOM, TRUE, RANDOM_REPS)]
    IN  IF bad = {}
        THEN Result(FALSE,
                    [scores |-> extend_all(N, ns, RANDOM_REPS),
                     ns |-> np_repeat(ns, RANDOM_REPS)],
                    done, <<>>)
        ELSE Result(TRUE, EmptyDict,
                    done \o <<Call("sim", "select", ns[stop], RANDOM, FALSE, 1)>>, <<>>)

\* resolve with the literal 1.0 taken for a fraction (n > 1 for n >= 1).
resolve_strict(N, n) == IF n > Unit THEN n ELSE PyRound(N * n, Unit) * Unit

\* n if n >= 1 else round(desc().shape[0] * n)
resolve(N, n) == IF n >= Unit THEN n ELSE PyRound(N * n, Unit) * Unit

\* ns = RANDOM_NS, then the appends: ns is the module-level list itself.
collect(rns, include_auto, n_auto, include_user, n_user) ==
    rns \o (IF include_user /\ n_user > 0 THEN <<n_user * Unit>> ELSE <<>>)
        \o (IF include_auto THEN <<n_auto>> ELSE <<>>)

\* [resolve(n) for n in list(set(ns))]
unique_int_ns(N, ns) ==
    LET uniq == list_set(Range(ns)) IN [i \in DOMAIN uniq |-> resolve(N, uniq[i])]

\* How a run of the select handler ends.
Ended(how, shown, made, rns, sizes, new_surr, new_sim) ==
    [outcome |-> how, errors |-> shown, calls |-> made, RANDOM_NS |-> rns,
     sizes |-> sizes, surr |-> new_surr, sim |-> new_sim]

\* The select handler on a loaded dataset of N rows, with rns the content of
\* RANDOM_NS when it starts. An exception of the engine, or of comparing
\* None with 1 while resolving, leaves the handler at once.
select_handler(N, rns, include_auto, strats, n_auto, include_user, user_ids, draw) ==
    LET uidx == user_idx(N, user_ids)
        auto == _process_conditional(include_auto, _validate_auto(n_auto, strats),
                                     _process_auto(N, n_auto, strats, draw))
        user == _process_conditional(include_user, _validate_user(uidx),
                                     _process_user(N, uidx))
        new_surr == Merge(auto.value, user.value)
        ns == collect(rns, include_auto, n_auto, include_user, Len(uidx))
        sizes == sorted(unique_int_ns(N, ns))
        simulated == _simulate_random(N, sizes)
    IN  IF auto.raised
        THEN Ended("raised", auto.errors, auto.calls, rns, <<>>, EmptyDict, EmptyDict)
        ELSE IF user.raised
        THEN Ended("raised", auto.errors \o user.errors, auto.calls \o user.calls,
                   rns, <<>>, EmptyDict, EmptyDict)
        ELSE IF new_surr = EmptyDict
        THEN Ended("no_selection", auto.errors \o user.errors,
                   auto.calls \o user.calls, rns, <<>>, EmptyDict, EmptyDict)
        ELSE IF None \in Range(ns)
        THEN Ended("raised", auto.errors \o user.errors, auto.calls \o user.calls,
                   ns, <<>>, EmptyDict, EmptyDict)
        ELSE IF simulated.raised
        THEN Ended("raised", auto.errors \o user.errors,
                   auto.calls \o user.calls \o simulated.calls,
                   ns, sizes, EmptyDict, EmptyDict)
        ELSE Ended("published", auto.errors \o user.errors,
                   auto.calls \o user.calls \o simulated.calls,
                   ns, sizes, new_surr, simulated.value)

\* ------------------------------------------------------------ inputs
DEFAULT_STRATS == <<HIERARCHICAL>>
DEFAULT_N == 20

Switches == BOOLEAN
StratInputs == {<<>>, DEFAULT_STRATS, <<HIERARCHICAL, RANDOM>>}
\* Empty input, the fraction 0.2, the literal counts 1.0 and 3, and the
\* number -1, which the input's min does not keep from the server.
NInputs == {None, DEFAULT_N, Unit, 3 * Unit, 0 - Unit}
\* No line; or the identifiers of the first UserBlock rows, the first of
\* them entered twice, and an identifier no row carries.
UserIdInputs == {<<>>, [i \in 1..UserBlock |-> i] \o <<1, 0>>}
\* Outcomes of the random generator for one RANDOM auto selection.
Draws == {0, 1}
DatasetSizes == {SmallN, BigN}

\* ------------------------------------------------------------ store
NotLoaded == [desc_ |-> 0, held_results |-> FALSE]

\* The inputs of the select handler as the latest run of it read them, with
\* the value of user_idx(); a run that stopped before reading them read none.
Read(include_auto, strats, n, include_user, user_ids, uidx) ==
    [read |-> TRUE, include_auto |-> include_auto, strats |-> strats, n |-> n,
     include_user |-> include_user, user_ids |-> user_ids, user_idx |-> uidx]
NoInputs ==
    [read |-> FALSE, include_auto |-> FALSE, strats |-> <<>>, n |-> None,
     include_user |-> FALSE, user_ids |-> <<>>, user_idx |-> <<>>]

\* No handler of the upload modal has run; no selector is bound on its own.
NoUpload == [handler |-> "none"]
NoProbe == [op |-> "none"]

\* ------------------------------------------------------------ page
\* data_ready and surrogates_ready
data_ready(desc_) == desc_ # 0
surrogates_ready(surr_) == surr_ # EmptyDict

\* The two alert outputs: req(...) leaves the output without a value
\* (FALSE), otherwise its value is a card (TRUE).
no_data_alert(desc_) == ~data_ready(desc_)
no_surr_alert(surr_) == ~surrogates_ready(surr_)

\* The conditions of the four conditional panels, over the output values
\* the page holds.
shown_no_data_alert(out) == out.no_data_alert
shown_plots(out) == ~out.no_data_alert
shown_no_surr_alert(out) == out.no_surr_alert /\ ~out.no_data_alert
shown_results(out) == ~out.no_surr_alert /\ ~out.no_data_alert

\* One round of rendering. Each alert output sits inside the panel whose
\* condition reads it, and both are declared with @render.ui alone, so with
\* the default of an output: it is rendered while its element is visible
\* and suspended, keeping the value the page has, while it is hidden.
render(out, desc_, surr_) ==
    [no_data_alert |-> IF shown_no_data_alert(out) THEN no_data_alert(desc_)
                       ELSE out.no_data_alert,
     no_surr_alert |-> IF shown_no_surr_alert(out) THEN no_surr_alert(surr_)
                       ELSE out.no_surr_alert]

\* Rendering goes on until no panel changes any more: an output that a
\* round made visible is rendered in the next.
RECURSIVE settle(_, _, _)
settle(out, desc_, surr_) ==
    LET next == render(out, desc_, surr_)
    IN  IF next = out THEN out ELSE settle(next, desc_, surr_)

\* The page of a new session: both outputs rendered for the empty store.
FirstPage == [no_data_alert |-> no_data_alert(0),
              no_surr_alert |-> no_surr_alert(EmptyDict)]

Init ==
    /\ desc = 0
    /\ data = 0
    /\ surr = EmptyDict
    /\ sim = EmptyDict
    /\ RANDOM_NS = RANDOM_NS_DEFAULT
    /\ calls = <<>>
    /\ errors = <<>>
    /\ loaded = NotLoaded
    /\ sim_arg = <<>>
    /\ outcome = "init"
    /\ inputs = NoInputs
    /\ disk = EmptyDict
    /\ log = 1
    /\ datasets = <<>>
    /\ temp = 0
    /\ modal = FALSE
    /\ up = NoUpload
    /\ probe = NoProbe
    /\ page = FirstPage

\* update_data without the reset of the Simulation Result.
update_data_keeps_sim(N) ==
    /\ desc' = N
    /\ data' = N
    /\ surr' = EmptyDict
    /\ loaded' = [desc_ |-> N, held_results |-> (surr # EmptyDict /\ sim # EmptyDict)]
    /\ calls' = <<>>
    /\ errors' = <<>>
    /\ sim_arg' = <<>>
    /\ outcome' = "loaded"
    /\ UNCHANGED <<sim, RANDOM_NS>>

\* DataStore.update_data(data_, desc_) with a descriptor table of N rows
\* computed for the rows of data_.
update_data(N) ==
    /\ desc' = N
    /\ data' = N
    /\ surr' = EmptyDict
    /\ sim' = EmptyDict
    /\ calls' = <<>>
    /\ errors' = <<>>
    /\ loaded' = [desc_ |-> N, held_results |-> (surr # EmptyDict /\ sim # EmptyDict)]
    /\ sim_arg' = <<>>
    /\ outcome' = "loaded"
    /\ UNCHANGED RANDOM_NS

\* A load or upload modal hands a dataset to on_data_loaded.
DataLoaded ==
    /\ \E N \in DatasetSizes : update_data(N)
    /\ inputs' = NoInputs
    /\ page' = settle(page, desc', surr')
    /\ UNCHANGED <<upload_vars, probe>>

\* DataStore.update_surrogates(surr_, sim_)
update_surrogates(surr_, sim_) ==
    /\ surr' = surr_
    /\ sim' = sim_

\* Python's order of the strings that label a subset:
\* "hierarchical" < "random" < "user".
str_lt(a, b) ==
    LET rank == [k \in {HIERARCHICAL, RANDOM, USER} |->
                    IF k = HIERARCHICAL THEN 1 ELSE IF k = RANDOM THEN 2 ELSE 3]
    IN  rank[a] < rank[b]

\* sorted(x) for a list of such strings.
RECURSIVE sorted_str(_)
sorted_str(xs) ==
    IF xs = <<>> THEN <<>>
    ELSE LET x == Head(xs)
             rest == sorted_str(Tail(xs))
             k == Cardinality({i \in 1..Len(rest) : ~str_lt(x, rest[i])})
         IN  SubSeq(rest, 1, k) \o <<x>> \o SubSeq(rest, k + 1, Len(rest))

\* sep.join(xs) for a non-empty list of strings.
RECURSIVE join(_, _)
join(sep, xs) ==
    IF Len(xs) = 1 THEN xs[1] ELSE xs[1] \o sep \o join(sep, Tail(xs))

\* labels[i] after the loops over surr().items(): strat appended once for
\* every occurrence of i in its idx, the strategies in the dict's order.
RECURSIVE appended(_, _, _)
appended(surr_, keys, i) ==
    IF keys = <<>> THEN <<>>
    ELSE LET idx == surr_[Head(keys)][1]
             times == Cardinality({j \in DOMAIN idx : idx[j] = i})
         IN  [t \in 1..times |-> Head(keys)] \o appended(surr_, Tail(keys), i)

\* surrogate_labels with labels[i] = [strat] in place of the append.
surrogate_labels_overwrite(N, surr_) ==
    LET keys == list_set(DOMAIN surr_)
    IN  [r \in 1..N |->
            LET x == appended(surr_, keys, r - 1)
            IN  IF x = <<>> THEN "none" ELSE x[Len(x)]]

\* DataStore.surrogate_labels() on a descriptor table of N rows: entry r of
\* the list is the label of row r - 1.
surrogate_labels(N, surr_) ==
    LET keys == list_set(DOMAIN surr_)
    IN  [r \in 1..N |->
            LET x == appended(surr_, keys, r - 1)
            IN  IF x = <<>> THEN "none" ELSE join("&", sorted_str(x))]

\* finish with the callback invoked even when the run raised.
finish_despite_raise(end) ==
    /\ RANDOM_NS' = end.RANDOM_NS
    /\ calls' = end.calls
    /\ errors' = end.errors
    /\ loaded' = NotLoaded
    /\ sim_arg' = end.sizes
    /\ outcome' = end.outcome
    /\ IF end.outcome \in {"published", "raised"}
       THEN update_surrogates(end.surr, end.sim)
       ELSE UNCHANGED <<surr, sim>>
    /\ UNCHANGED <<desc, data>>

\* What the select handler does with the end of its run: the callback is
\* the last statement, reached only when nothing raised.
finish(end) ==
    /\ RANDOM_NS' = end.RANDOM_NS
    /\ calls' = end.calls
    /\ errors' = end.errors
    /\ loaded' = NotLoaded
    /\ sim_arg' = end.sizes
    /\ outcome' = end.outcome
    /\ IF end.outcome = "published"
       THEN update_surrogates(end.surr, end.sim)
       ELSE UNCHANGED <<surr, sim>>
    /\ UNCHANGED <<desc, data>>

\* SelectNoData without the early return: the handler goes on with the
\* default inputs.
SelectNoData_goes_on ==
    /\ desc = 0
    /\ finish(select_handler(desc, RANDOM_NS, TRUE, DEFAULT_STRATS, DEFAULT_N,
                             FALSE, <<>>, 0))
    /\ inputs' = Read(TRUE, DEFAULT_STRATS, DEFAULT_N, FALSE, <<>>, <<>>)
    /\ page' = settle(page, desc', surr')
    /\ UNCHANGED <<upload_vars, probe>>

\* A click on Select while no dataset is loaded.
SelectNoData ==
    /\ desc = 0
    /\ finish(Ended("no_data", <<NO_DATA>>, <<>>, RANDOM_NS, <<>>, EmptyDict, EmptyDict))
    /\ inputs' = NoInputs
    /\ page' = settle(page, desc', surr')
    /\ UNCHANGED <<upload_vars, probe>>

\* A click on Select with a dataset loaded, whatever the inputs hold. The
\* inputs of a panel whose switch is off are read but never used, so they
\* are left at their defaults; a draw is made only by a RANDOM selection.
Select ==
    /\ desc # 0
    /\ \E include_auto \in Switches, include_user \in Switches :
       \E strats \in (IF include_auto THEN StratInputs ELSE {DEFAULT_STRATS}),
          n_auto \in (IF include_auto THEN NInputs ELSE {DEFAULT_N}),
          user_ids \in (IF include_user THEN UserIdInputs ELSE {<<>>}) :
       \E draw \in (IF include_auto /\ RANDOM \in Range(strats) THEN Draws ELSE {0}) :
          \E end \in {select_handler(desc, RANDOM_NS, include_auto, strats, n_auto,
                                    include_user, user_ids, draw)} :
              /\ Len(end.RANDOM_NS) <= Len(RANDOM_NS_DEFAULT) + MaxExtra
              /\ finish(end)
              /\ inputs' = Read(include_auto, strats, n_auto, include_user, user_ids,
                                user_idx(desc, user_ids))
              /\ page' = settle(page, desc', surr')
              /\ UNCHANGED <<upload_vars, probe>>

Next == DataLoaded \/ SelectNoData \/ Select

Spec == Init /\ [][Next]_vars

\* ------------------------------------------------------------ data files
\* A str is the sequence of its characters. The characters in use:
Alphabet == {"a", "b", "A", "B", "1", "_", "-", " ", "!", "."}

\* str.lower()
lower(str) ==
    [i \in DOMAIN str |->
        IF str[i] = "A" THEN "a" ELSE IF str[i] = "B" THEN "b" ELSE str[i]]

\* NAME_PATTERN = "[A-Za-z0-9_\\- ]{2,32}" and re.fullmatch(NAME_PATTERN, name)
NAME_MIN == 2
NAME_MAX == 32
NAME_CLASS == Alphabet \ {"!", "."}
fullmatch_NAME_PATTERN(name) ==
    /\ NAME_MIN <= Len(name)
    /\ Len(name) <= NAME_MAX
    /\ \A i \in DOMAIN name : name[i] \in NAME_CLASS

NO_NAME == "NO_NAME"
NAME_DUP == "NAME_DUP"
NAME_INVALID == "NAME_INVALID"
NO_FILE == "NO_FILE"
COLS_DUP == "COLS_DUP"
FILE_INVALID == "FILE_INVALID"

\* An entry of a list is a str or a pathlib.Path; only a str has lower().
Str(chars) == [type |-> "str", value |-> chars]
Path(name) == [type |-> "Path", value |-> name]

\* get_datasets(): the directories of the data folder, as Path objects.
get_datasets(disk_) == list_set({Path(name) : name \in DOMAIN disk_})

\* What save_data comes to: the exception it raises, if any, and the data
\* folder and the count of log writes it leaves.
Saved(raised, disk_, log_) == [raised |-> raised, disk |-> disk_, log |-> log_]

\* save_data with mkdir(parents=True, exist_ok=True).
save_data_exist_ok(disk_, log_, name, rows) ==
    Saved("none",
          [k \in DOMAIN disk_ \cup {name} |->
              IF k = name THEN [data |-> rows, desc |-> rows] ELSE disk_[k]],
          log_ + 1)

\* save_data(name, data, desc): mkdir raises FileExistsError when the
\* directory exists; else both files are written and the log is updated.
save_data(disk_, log_, name, rows) ==
    IF name \in DOMAIN disk_
    THEN Saved("FileExistsError", disk_, log_)
    ELSE Saved("none",
               [k \in DOMAIN disk_ \cup {name} |->
                   IF k = name THEN [data |-> rows, desc |-> rows] ELSE disk_[k]],
               log_ + 1)

\* ------------------------------------------------------------ upload modal
\* _validate_name(name) with datasets() = listed. The list comprehension
\* calls lower() on every entry before the membership test.
_validate_name(name, listed) ==
    IF name = <<>>
    THEN Returned(<<NO_NAME>>)
    ELSE IF \E i \in DOMAIN listed : listed[i].type # "str"
    THEN Failed("AttributeError")
    ELSE IF lower(name) \in {lower(listed[i].value) : i \in DOMAIN listed}
    THEN Returned(<<NAME_DUP>>)
    ELSE IF ~fullmatch_NAME_PATTERN(name)
    THEN Returned(<<NAME_INVALID>>)
    ELSE Returned(<<>>)

\* _validate_data(data, id_col, qrs_col); data is its number of rows.
_validate_data(data_, id_col, qrs_col) ==
    IF data_ = 0 THEN <<NO_FILE>>
    ELSE IF id_col = qrs_col THEN <<COLS_DUP>>
    ELSE <<>>

\* How a run of the upload handler ends: the exception that left it, the
\* value _validate_name came to, the errors of _validate_data, the
\* notifications shown, the steps taken after validation in order, the data
\* folder and log it leaves, the rows handed to on_data_loaded (0: not
\* called), and temp and the modal after it.
Uploaded(raised, name_result, data_errors, notes, steps, saved, rows, temp_, modal_) ==
    [raised |-> raised, name_result |-> name_result, data_errors |-> data_errors,
     notes |-> notes, steps |-> steps, disk |-> saved.disk, log |-> saved.log,
     rows |-> rows, temp |-> temp_, modal |-> modal_]

\* The upload handler with on_data_loaded called before save_data.
upload_load_first(name, id_col, qrs_col, temp_, listed, disk_, log_) ==
    LET name_result == _validate_name(name, listed)
        data_errors == _validate_data(temp_, id_col, qrs_col)
        errs == name_result.value \o data_errors
        saved == save_data(disk_, log_, name, temp_)
        same == Saved("none", disk_, log_)
    IN  IF name_result.raised
        THEN Uploaded(name_result.error, name_result, <<>>, <<>>, <<>>, same, 0,
                      temp_, TRUE)
        ELSE IF Len(errs) > 0
        THEN Uploaded("none", name_result, data_errors, errs, <<>>, same, 0,
                      temp_, TRUE)
        ELSE IF saved.raised # "none"
        THEN Uploaded(saved.raised, name_result, data_errors, <<>>,
                      <<"on_data_loaded", "save_data">>, saved, temp_, temp_, TRUE)
        ELSE Uploaded("none", name_result, data_errors, <<"load_success">>,
                      <<"on_data_loaded", "save_data", "load_success_notification",
                        "_clear_temp", "modal_remove">>,
                      saved, temp_, 0, FALSE)

\* The upload handler: validation, then save_data, on_data_loaded, the
\* success notification and _clear_and_close. An exception leaves it at
\* once.
upload(name, id_col, qrs_col, temp_, listed, disk_, log_) ==
    LET name_result == _validate_name(name, listed)
        data_errors == _validate_data(temp_, id_col, qrs_col)
        errs == name_result.value \o data_errors
        saved == save_data(disk_, log_, name, temp_)
        same == Saved("none", disk_, log_)
    IN  IF name_result.raised
        THEN Uploaded(name_result.error, name_result, <<>>, <<>>, <<>>, same, 0,
                      temp_, TRUE)
        ELSE IF Len(errs) > 0
        THEN Uploaded("none", name_result, data_errors, errs, <<>>, same, 0,
                      temp_, TRUE)
        ELSE IF saved.raised # "none"
        THEN Uploaded(saved.raised, name_result, data_errors, <<>>,
                      <<"save_data">>, saved, 0, temp_, TRUE)
        ELSE Uploaded("none", name_result, data_errors, <<"load_success">>,
                      <<"save_data", "on_data_loaded", "load_success_notification",
                        "_clear_temp", "modal_remove">>,
                      saved, temp_, 0, FALSE)

\* A file-input event: no file, a table of some rows, a file that parses to
\* an empty frame, one the parser rejects (EmptyDataError, ParserError), and
\* one whose reading raises anything else.
NoFile == [kind |-> "none", rows |-> 0]
FileInputs ==
    {NoFile} \cup {[kind |-> "table", rows |-> N] : N \in DatasetSizes}
             \cup {[kind |-> k, rows |-> 0] : k \in {"empty_frame", "parser_error",
                                                      "other_error"}}

\* upload_temp: what temp holds after the event, the notifications shown and
\* whether the handler raised.
upload_temp(file, temp_) ==
    LET after == IF file.kind = "table" THEN file.rows
                 ELSE IF file.kind = "other_error" THEN temp_
                 ELSE 0
    IN  [temp |-> after,
         notes |-> IF file.kind # "none" /\ after = 0 THEN <<FILE_INVALID>> ELSE <<>>,
         raised |-> file.kind = "other_error"]

\* Names typed into the name input: none; one character; two; the same two
\* in capitals; a forbidden character; every kind of allowed character; the
\* longest allowed name and one longer.
NameInputs ==
    {<<>>, <<"a">>, <<"a", "b">>, <<"A", "B">>, <<"a", "!">>,
     <<"b", "_", "-", " ", "1">>,
     [i \in 1..NAME_MAX |-> "a"], [i \in 1..(NAME_MAX + 1) |-> "a"]}
\* The columns of an uploaded table, for the two column selectors.
Columns == {"id", "smiles"}

\* show_upload_modal: the navbar button, reachable while no modal is shown.
show_upload_modal ==
    /\ ~modal
    /\ modal' = TRUE
    /\ up' = [handler |-> "show_upload_modal"]
    /\ UNCHANGED <<store_vars, sidebar_vars, disk, log, datasets, temp, probe, page>>

\* A change of the file input of the shown modal.
UploadTemp ==
    /\ modal
    /\ \E file \in FileInputs :
          LET end == upload_temp(file, temp)
          IN  /\ temp' = end.temp
              /\ up' = [handler |-> "upload_temp", file |-> file,
                        raised |-> end.raised, notes |-> end.notes]
    /\ UNCHANGED <<store_vars, sidebar_vars, disk, log, datasets, modal, probe, page>>

\* A click on Upload in the shown modal.
Upload ==
    /\ modal
    /\ \E name \in NameInputs :
       \E id_col \in (IF temp = 0 THEN {""} ELSE Columns),
          qrs_col \in (IF temp = 0 THEN {""} ELSE Columns) :
          LET end == upload(name, id_col, qrs_col, temp, datasets, disk, log)
          IN  /\ disk' = end.disk
              /\ log' = end.log
              /\ temp' = end.temp
              /\ modal' = end.modal
              /\ up' = [handler |-> "upload", name |-> name, listed |-> datasets,
                        raised |-> end.raised, name_result |-> end.name_result,
                        data_errors |-> end.data_errors, notes |-> end.notes,
                        steps |-> end.steps]
              /\ IF end.rows # 0
                 THEN update_data(end.rows) /\ inputs' = NoInputs
                 ELSE UNCHANGED <<store_vars, sidebar_vars>>
              /\ page' = settle(page, desc', surr')
    /\ UNCHANGED <<datasets, probe>>

\* Close without _clear_temp: modal_remove alone.
Close_keeps_temp ==
    /\ modal
    /\ modal' = FALSE
    /\ up' = [handler |-> "close"]
    /\ UNCHANGED <<store_vars, sidebar_vars, disk, log, datasets, temp, probe, page>>

\* A click on Close in the shown modal: _clear_and_close.
Close ==
    /\ modal
    /\ temp' = 0
    /\ modal' = FALSE
    /\ up' = [handler |-> "close"]
    /\ UNCHANGED <<store_vars, sidebar_vars, disk, log, datasets, probe, page>>

\* update_datasets: the file reader on last_updated.txt noticed a change.
update_datasets ==
    /\ datasets # get_datasets(disk)
    /\ datasets' = get_datasets(disk)
    /\ up' = [handler |-> "update_datasets"]
    /\ UNCHANGED <<store_vars, sidebar_vars, disk, log, temp, modal, probe, page>>

UploadNext == show_upload_modal \/ UploadTemp \/ Upload \/ Close \/ update_datasets

UploadSpec == Init /\ [][UploadNext]_vars

\* ------------------------------------------------------------ selector
\* The selector on its own: bound to a population, then called with any
\* size, strategy and subset.
PopSizes == 1..MaxPop
SizeInputs(N) == {k * Unit : k \in (0 - 1)..(N + 1)} \cup {Unit \div 2}
SubsetInputs(N) ==
    {<<>>} \cup {<<i>> : i \in (0 - 1)..N}
           \cup {<<i, j>> : i \in (0 - 1)..N, j \in (0 - 1)..N}
           \cup {[j \in 1..N |-> j - 1]}

\* SurrogateSelection(table): a selector bound to a population of N.
Bind ==
    /\ \E N \in PopSizes : probe' = [op |-> "bind", N |-> N]
    /\ UNCHANGED <<store_vars, sidebar_vars, upload_vars, page>>

EngineSelect ==
    /\ probe.op # "none"
    /\ \E size \in SizeInputs(probe.N), strategy \in {HIERARCHICAL, RANDOM},
          draw \in Draws :
          probe' = [op |-> "select", N |-> probe.N, size |-> size,
                    strategy |-> strategy, draw |-> draw,
                    result |-> selector_select(probe.N, size, strategy, draw)]
    /\ UNCHANGED <<store_vars, sidebar_vars, upload_vars, page>>

EngineScore ==
    /\ probe.op # "none"
    /\ \E subset \in SubsetInputs(probe.N) :
          probe' = [op |-> "score", N |-> probe.N, subset |-> subset,
                    result |-> selector_score(probe.N, subset)]
    /\ UNCHANGED <<store_vars, sidebar_vars, upload_vars, page>>

EngineNext == Bind \/ EngineSelect \/ EngineScore

EngineSpec == Init /\ [][EngineNext]_vars

\* ------------------------------------------------------------ claims
\* The engine calls the baseline simulation made in the latest handler.
SimCalls == SelectSeq(calls, LAMBDA c : c.by = "sim")

\* The number of trials among cs that were run with size s.
RECURSIVE TrialsOf(_, _)
TrialsOf(cs, s) ==
    IF cs = <<>> THEN 0
    ELSE (IF Head(cs).n = s THEN Head(cs).times ELSE 0) + TrialsOf(Tail(cs), s)

\* The size of every trial of cs, one entry per trial, in the order made.
RECURSIVE TrialSizes(_)
TrialSizes(cs) ==
    IF cs = <<>> THEN <<>>
    ELSE [r \in 1..Head(cs).times |-> Head(cs).n] \o TrialSizes(Tail(cs))

\* c is round(num / den): the nearest whole number, the even one on a tie.
IsRounded(c, num, den) ==
    LET d == IF den * c >= num THEN den * c - num ELSE num - den * c
    IN  2 * d < den \/ (2 * d = den /\ c % 2 = 0)

\* s is what the entered number n stands for on a dataset of N rows.
IsResolutionOf(N, s, n) ==
    IF n < Unit
    THEN s % Unit = 0 /\ IsRounded(s \div Unit, N * n, Unit)
    ELSE s = n

\* The reference fractions 1%, 10%, 20% and 50% of N as counts.
RefSizes(N) == {s \in {c * Unit : c \in 0..N} :
                   \E i \in DOMAIN RANDOM_NS_DEFAULT :
                       IsResolutionOf(N, s, RANDOM_NS_DEFAULT[i])}

\* C1: a published Simulation Result holds exactly RANDOM_REPS scores for
\* each distinct size of interest, and select(s, RANDOM) was called exactly
\* RANDOM_REPS times for each such size s.
C1_ScoresPerDistinctSize ==
    outcome = "published" =>
        /\ Len(sim.scores) = RANDOM_REPS * Cardinality(Range(sim_arg))
        /\ \A s \in Range(sim_arg) : TrialsOf(SimCalls, s) = RANDOM_REPS

\* C2: in a published Simulation Result scores and ns have the same length,
\* label i is the size of the trial that produced score i, every size labels
\* exactly RANDOM_REPS positions, and the labels ascend (so each size is one
\* contiguous block of RANDOM_REPS labels, blocks in ascending size order).
C2_LabelBlocks ==
    outcome = "published" =>
        /\ Len(sim.scores) = Len(sim.ns)
        /\ sim.ns = TrialSizes(SimCalls)
        /\ \A p \in 1..(Len(sim.ns) - 1) : sim.ns[p] <= sim.ns[p + 1]
        /\ \A s \in Range(sim.ns) :
               Cardinality({p \in DOMAIN sim.ns : sim.ns[p] = s}) = RANDOM_REPS

\* C3: the list of sizes handed to the simulator is strictly ascending:
\* sorted, and no value twice.
C3_SizesSortedUnique ==
    \A i \in 1..(Len(sim_arg) - 1) : sim_arg[i] < sim_arg[i + 1]

\* C4: the sizes handed to the simulator are the distinct collected numbers,
\* each n < 1 replaced by round(N * n) and each n >= 1 kept as it is.
C4_Resolution ==
    sim_arg # <<>> =>
        /\ Len(sim_arg) = Cardinality(Range(RANDOM_NS))
        /\ \A s \in Range(sim_arg) :
               Cardinality({i \in DOMAIN sim_arg : sim_arg[i] = s})
                 = Cardinality({n \in Range(RANDOM_NS) : IsResolutionOf(desc, s, n)})

\* C4 witness: a handler that collected the literal 1.0 next to the
\* fractions, resolved them and published.
C4_Witness ==
    /\ outcome = "published"
    /\ Unit \in Range(RANDOM_NS)
    /\ DEFAULT_N \in Range(RANDOM_NS)
    /\ Unit \in Range(sim_arg)

\* C5: every size the simulation calls select(size, RANDOM) with is a whole
\* count between 1 and N.
C5_SimSizesValid ==
    \A i \in DOMAIN calls :
        calls[i].by = "sim" =>
            /\ calls[i].n % Unit = 0
            /\ Unit <= calls[i].n
            /\ calls[i].n <= desc * Unit

\* C6: every call of selector.select made by _process_auto is handed a whole
\* positive count, never a fraction.
C6_AutoCallsGetCounts ==
    \A i \in DOMAIN calls :
        calls[i].by = "auto" => (calls[i].n % Unit = 0 /\ calls[i].n >= Unit)

\* C7: RANDOM_NS is the same list, the four reference fractions, whenever a
\* select invocation may start.
C7_ReferenceListFixed == RANDOM_NS = RANDOM_NS_DEFAULT

\* C8: every size handed to the simulator is a reference fraction of N or
\* the count of a selection the same invocation performed.
C8_SimulatedSizesPerformed ==
    \A i \in DOMAIN sim_arg :
        \/ sim_arg[i] \in RefSizes(desc)
        \/ \E j \in DOMAIN calls :
               /\ calls[j].by \in {"auto", "user"}
               /\ calls[j].ok
               /\ calls[j].n = sim_arg[i]

\* C9: after update_data the store holds no Selection Result and no
\* Simulation Result, and desc is the descriptor table handed over.
C9_DatasetChangeClears ==
    outcome = "loaded" =>
        /\ surr = EmptyDict
        /\ sim = EmptyDict
        /\ desc = loaded.desc_

\* C9 witness: a dataset was loaded over a store that held results.
C9_Witness == outcome = "loaded" /\ loaded.held_results

\* Every selection and every trial of the latest handler has completed.
AllCompleted ==
    /\ \A i \in DOMAIN calls : calls[i].ok
    /\ SimCalls = [i \in DOMAIN sim_arg |->
                      Call("sim", "select", sim_arg[i], RANDOM, TRUE, RANDOM_REPS)]
    /\ Len(sim.scores) = RANDOM_REPS * Len(sim_arg)
    /\ Len(sim.ns) = RANDOM_REPS * Len(sim_arg)

\* C10: the stored surr and sim change only when a dataset is loaded or a
\* select handler publishes; a handler publishes only after every selection
\* and all RANDOM_REPS x |sizes| trials completed; and a handler in which an
\* engine call failed leaves surr and sim as they were.
C10_AllOrNothing ==
    [][/\ (surr' # surr \/ sim' # sim) => outcome' \in {"published", "loaded"}
       /\ outcome' = "published" => AllCompleted'
       /\ (\E i \in DOMAIN calls' : ~calls'[i].ok) =>
              (outcome' = "raised" /\ surr' = surr /\ sim' = sim)]_vars

\* C10 witness: an engine call failed in a handler that ran while the store
\* held published results, and the store still holds them.
C10_Witness ==
    /\ outcome = "raised"
    /\ \E i \in DOMAIN calls : ~calls[i].ok
    /\ surr # EmptyDict
    /\ "scores" \in DOMAIN sim

\* The engine calls the auto path and the user path made in the latest
\* handler.
AutoCalls == SelectSeq(calls, LAMBDA c : c.by = "auto")
UserCalls == SelectSeq(calls, LAMBDA c : c.by = "user")

\* C11: an auto selection that succeeded called select exactly once per
\* enabled strategy, in turn, each with the n that was entered; a published
\* Selection Result has exactly one entry per strategy of a performed auto
\* selection, keyed by the strategy and holding a subset of n indices; a
\* performed user selection is the entry "user", the entered subset with the
\* score of one selector.score call; the user path never calls select and
\* the auto path never calls score.
C11_OncePerStrategy ==
    /\ \A i \in DOMAIN calls :
           /\ calls[i].by = "user" => calls[i].op = "score"
           /\ calls[i].by = "auto" => calls[i].op = "select"
    /\ (AutoCalls # <<>> /\ \A i \in DOMAIN AutoCalls : AutoCalls[i].ok) =>
           AutoCalls = [i \in DOMAIN inputs.strats |->
                           Call("auto", "select", inputs.n, inputs.strats[i], TRUE, 1)]
    /\ outcome = "published" =>
           /\ DOMAIN surr \ {USER} =
                  (IF inputs.include_auto THEN Range(inputs.strats) ELSE {})
           /\ \A s \in DOMAIN surr \ {USER} :
                  /\ Len(surr[s][1]) * Unit = inputs.n
                  /\ Cardinality({i \in DOMAIN AutoCalls : AutoCalls[i].strategy = s}) = 1
           /\ USER \in DOMAIN surr <=> (inputs.include_user /\ inputs.user_idx # <<>>)
           /\ USER \in DOMAIN surr =>
                  /\ surr[USER][1] = inputs.user_idx
                  /\ surr[USER][2] = desc - Len(inputs.user_idx)
                  /\ UserCalls = <<Call("user", "score", Len(inputs.user_idx) * Unit,
                                        USER, TRUE, 1)>>

\* C11 witness: a published result with both strategies and a user subset.
C11_Witness ==
    /\ outcome = "published"
    /\ DOMAIN surr = {HIERARCHICAL, RANDOM, USER}
    /\ Len(AutoCalls) = 2

\* The label the claim gives a row that the subsets of the strategies S hold.
LabelOf(S) ==
    IF S = {} THEN "none"
    ELSE IF S = {HIERARCHICAL} THEN "hierarchical"
    ELSE IF S = {RANDOM} THEN "random"
    ELSE IF S = {USER} THEN "user"
    ELSE IF S = {HIERARCHICAL, RANDOM} THEN "hierarchical&random"
    ELSE IF S = {HIERARCHICAL, USER} THEN "hierarchical&user"
    ELSE IF S = {RANDOM, USER} THEN "random&user"
    ELSE "hierarchical&random&user"

\* C12: save_data never overwrites: every directory of the data folder stays
\* with its files as they are; and when save_data is called with the name of
\* an existing directory it fails with FileExistsError, the data folder is
\* unchanged and the last-updated log is not written.
C12_NeverOverwrites ==
    [][/\ \A name \in DOMAIN disk : name \in DOMAIN disk' /\ disk'[name] = disk[name]
       /\ (/\ up'.handler = "upload"
           /\ "save_data" \in Range(up'.steps)
           /\ up'.name \in DOMAIN disk) =>
              (up'.raised = "FileExistsError" /\ disk' = disk /\ log' = log)]_vars

\* C12 witness: save_data was called with the name of a directory that
\* holds another table than the one to be saved, and failed.
C12_Witness ==
    /\ up.handler = "upload"
    /\ up.raised = "FileExistsError"
    /\ disk[up.name].data # temp

C17_NoDataStops ==
    [][/\ (desc = 0 /\ outcome' # "loaded") =>
              /\ outcome' = "no_data"
              /\ errors' = <<NO_DATA>>
              /\ calls' = <<>>
              /\ sim_arg' = <<>>
              /\ ~inputs'.read
              /\ UNCHANGED <<desc, data, surr, sim, RANDOM_NS>>
       /\ outcome' = "no_data" => desc = 0]_vars

\* C17 witness: Select was clicked with no dataset loaded.
C17_Witness == outcome = "no_data" /\ desc = 0 /\ errors = <<NO_DATA>>

\* An engine call of the auto path failed, so the handler left before the
\* user path.
AutoRaised == \E i \in DOMAIN AutoCalls : ~AutoCalls[i].ok

\* C18: with a switch on and an invalid input, each validation error is
\* shown and the path makes no engine call; with the switch off the path
\* shows no error and makes no call; a valid input shows no error. So score
\* is never called with an empty subset, and select is never called by the
\* auto path with n missing, n <= 0 or without a strategy.
C18_ValidationGates ==
    /\ inputs.read =>
          LET n_bad == inputs.n = None \/ inputs.n <= 0
              no_strat == inputs.strats = <<>>
              no_user == inputs.user_idx = <<>>
              shown == Range(errors)
          IN  /\ (inputs.include_auto /\ (n_bad \/ no_strat)) => AutoCalls = <<>>
              /\ N_INVALID \in shown <=> (inputs.include_auto /\ n_bad)
              /\ NO_STRAT \in shown <=> (inputs.include_auto /\ no_strat)
              /\ ~inputs.include_auto => AutoCalls = <<>>
              /\ (inputs.include_user /\ no_user) => UserCalls = <<>>
              /\ NO_USER \in shown <=> (inputs.include_user /\ no_user /\ ~AutoRaised)
              /\ ~inputs.include_user => UserCalls = <<>>
    /\ \A i \in DOMAIN calls :
          /\ calls[i].by = "user" => calls[i].n > 0
          /\ calls[i].by = "auto" =>
                 /\ calls[i].n # None
                 /\ calls[i].n > 0
                 /\ calls[i].strategy \in {HIERARCHICAL, RANDOM}

\* C18 witness: both switches on, every input invalid: three errors shown
\* and no engine call made.
C18_Witness ==
    /\ inputs.read /\ inputs.include_auto /\ inputs.include_user
    /\ errors = <<N_INVALID, NO_STRAT, NO_USER>>
    /\ calls = <<>>

\* C19: the subset user_idx computes is strictly ascending (so without a
\* duplicate), lies in [0, N) and holds exactly the rows whose identifier is
\* one of the entered lines.
C19_UserIdxWellFormed ==
    inputs.read =>
        LET u == inputs.user_idx
            lines == Range(inputs.user_ids)
        IN  /\ \A j \in 1..(Len(u) - 1) : u[j] < u[j + 1]
            /\ \A j \in DOMAIN u : u[j] \in 0..(desc - 1)
            /\ Range(u) = {i \in 0..(desc - 1) : (i + 1) \in lines}

\* C19 witness: lines with an identifier entered twice and identifiers no
\* row carries gave a shorter, non-empty subset that was scored and stored.
C19_Witness ==
    /\ outcome = "published"
    /\ inputs.include_user
    /\ 0 < Len(inputs.user_idx)
    /\ Len(inputs.user_idx) < Cardinality(Range(inputs.user_ids))
    /\ surr[USER][1] = inputs.user_idx

\* A name of 2 to 32 characters, each a letter, a digit, an underscore, a
\* dash or a space.
WellFormedName(name) ==
    /\ Len(name) \in 2..32
    /\ \A i \in DOMAIN name : name[i] \in {"a", "b", "A", "B", "1", "_", "-", " "}

\* C14: _validate_name returns at most one error: NO_NAME for the empty
\* name, else NAME_DUP when the name is an existing dataset's name but for
\* case, else NAME_INVALID unless the name is well formed, and no error for
\* a unique, well-formed name.
C14_NameValidation ==
    up.handler = "upload" =>
        LET existing == {lower(up.listed[i].value) : i \in DOMAIN up.listed}
            expected == IF up.name = <<>> THEN <<NO_NAME>>
                        ELSE IF lower(up.name) \in existing THEN <<NAME_DUP>>
                        ELSE IF ~WellFormedName(up.name) THEN <<NAME_INVALID>>
                        ELSE <<>>
        IN  /\ ~up.name_result.raised
            /\ up.name_result.value = expected

C16_EngineErrors ==
    /\ (probe.op = "select" /\ (probe.size <= 0 \/ probe.size > probe.N * Unit)) =>
           probe.result = [raised |-> TRUE, error |-> "InvalidSizeError", value |-> <<>>]
    /\ (/\ probe.op = "score"
        /\ \/ probe.subset = <<>>
           \/ \E i, j \in DOMAIN probe.subset :
                  i # j /\ probe.subset[i] = probe.subset[j]
           \/ \E i \in DOMAIN probe.subset :
                  probe.subset[i] < 0 \/ probe.subset[i] >= probe.N) =>
           probe.result = [raised |-> TRUE, error |-> "InvalidSelectionError",
                           value |-> <<>>]

\* C16 witness: select was called with size 0.
C16_Witness == probe.op = "select" /\ probe.size = 0 /\ probe.result.raised

\* C20: a run of the upload handler saves or publishes only when both
\* validations returned no error. When they returned errors, each is shown,
\* no step follows, and temp, the modal, the data folder and the store stay.
\* When they returned none, save_data comes first; if it succeeds the steps
\* are save_data, on_data_loaded, the success notification, _clear_temp and
\* modal_remove, the store holds the uploaded table, temp is empty and the
\* modal is closed. A run that an exception left (in validation or in
\* save_data) published nothing: the store, temp and the modal stay.
C20_UploadGate ==
    [][up'.handler = "upload" =>
          LET r == up'
              validated == ~r.name_result.raised
              errs == r.name_result.value \o r.data_errors
              saved == "save_data" \in Range(r.steps)
              published == "on_data_loaded" \in Range(r.steps)
          IN  /\ (saved \/ published) => (validated /\ errs = <<>>)
              /\ published => (desc' = temp /\ outcome' = "loaded")
              /\ ~published => UNCHANGED <<store_vars, sidebar_vars>>
              /\ ~saved => UNCHANGED <<disk, log>>
              /\ (validated /\ errs # <<>>) =>
                     /\ r.notes = errs
                     /\ r.steps = <<>>
                     /\ r.raised = "none"
                     /\ temp' = temp /\ modal'
              /\ (validated /\ errs = <<>>) => r.steps[1] = "save_data"
              /\ (validated /\ errs = <<>> /\ r.raised = "none") =>
                     /\ r.steps = <<"save_data", "on_data_loaded",
                                    "load_success_notification", "_clear_temp",
                                    "modal_remove">>
                     /\ disk'[r.name] = [data |-> temp, desc |-> temp]
                     /\ temp' = 0 /\ ~modal'
              /\ r.raised # "none" =>
                     /\ ~published
                     /\ r.notes = <<>>
                     /\ temp' = temp /\ modal']_vars

\* C20 witness: save_data failed in an upload of another table than the
\* one the store holds, and the store still holds its table.
C20_Witness ==
    /\ up.handler = "upload"
    /\ up.steps = <<"save_data">>
    /\ up.raised # "none"
    /\ desc # 0 /\ temp # 0 /\ desc # temp

\* C21: after a file-input event temp never holds the data of a file chosen
\* before: it holds the rows parsed from the new file, or it is empty when
\* no file was given or the reading failed for any reason; and FILE_INVALID
\* is shown whenever a file was given and temp ends up empty.
C21_TempFollowsFile ==
    up.handler = "upload_temp" =>
        /\ temp = (IF up.file.kind = "table" THEN up.file.rows ELSE 0)
        /\ (up.file.kind # "none" /\ temp = 0) => FILE_INVALID \in Range(up.notes)

\* C22: the upload modal is removed only by its own handlers, the Close
\* button and a successful upload, and whenever it is not shown temp is the
\* empty data frame, whatever file, upload and close events came before.
C22_ClosedModalHoldsNothing ==
    [][/\ ~modal' => temp' = 0
       /\ (modal /\ ~modal') =>
              \/ up'.handler = "close"
              \/ /\ up'.handler = "upload"
                 /\ up'.raised = "none"
                 /\ "modal_remove" \in Range(up'.steps)]_vars

\* C22 witness: a successful upload removed the modal; the table that temp
\* held is published and temp is empty.
C22_Witness ==
    /\ up.handler = "upload"
    /\ "modal_remove" \in Range(up.steps)
    /\ ~modal
    /\ temp = 0
    /\ desc # 0

\* C23: in every settled state the panels follow the store: the no-data
\* alert is shown exactly when no dataset is loaded, the plot cards exactly
\* when one is loaded, the no-surrogates alert exactly when one is loaded
\* and surr is empty, the histogram and report cards exactly when one is
\* loaded and surr is not empty; so exactly one of the three layouts (the
\* alert alone, plots with the no-surrogates alert, plots with the results)
\* is shown.
C23_PanelsFollowStore ==
    /\ shown_no_data_alert(page) <=> desc = 0
    /\ shown_plots(page) <=> desc # 0
    /\ shown_no_surr_alert(page) <=> (desc # 0 /\ surr = EmptyDict)
    /\ shown_results(page) <=> (desc # 0 /\ surr # EmptyDict)
    /\ LET shown == <<shown_no_data_alert(page), shown_plots(page),
                      shown_no_surr_alert(page), shown_results(page)>>
       IN  shown \in {<<TRUE, FALSE, FALSE, FALSE>>,
                      <<FALSE, TRUE, TRUE, FALSE>>,
                      <<FALSE, TRUE, FALSE, TRUE>>}

====
